---- MODULE Spec2Model ----
(***************************************************************************)
(* Model of llm_motion_bridge.py: the command slot guarded by              *)
(* _command_lock, the instruction callback, the publish timer and the      *)
(* ~stop service of class LLMMotionBridge.                                 *)
(*                                                                         *)
(* Velocities and times are integers (one unit of speed, one unit of       *)
(* time); a Python float is a record [k, v] so that NaN is a value of its  *)
(* own, compared the way Python compares it.                               *)
(***************************************************************************)
EXTENDS Integers, Sequences, FiniteSets, TLC

\* ---------------------------------------------------------------- bounds
\* The clock takes the values 0..MaxTime.
MaxTime == 2

\* The values handed to _clamp are the numbers -MaxValue..MaxValue and NaN; the
\* limits are -1..MaxLimit.
MaxValue == 3
MaxLimit == 2

\* ------------------------------------------------------- node parameters
\* ~command_hold_duration, ~max_linear_speed, ~max_side_speed,
\* ~max_angular_speed as read in __init__ (values of this configuration).
command_hold_duration == 1
max_linear_speed == 2
max_side_speed == 1
max_angular_speed == 2

\* ----------------------------------------------------------------- floats
Num(n) == [k |-> "num", v |-> n]
NaN == [k |-> "nan", v |-> 0]
\* Raw JSON values that are no float: a malformed one, an absent key.
Bad == [k |-> "bad", v |-> 0]
Absent == [k |-> "absent", v |-> 0]

\* a < b and a > b on Python floats: every comparison with NaN is False.
FloatLt(a, b) == a.k = "num" /\ b.k = "num" /\ a.v < b.v
FloatGt(a, b) == a.k = "num" /\ b.k = "num" /\ a.v > b.v
FloatLe(a, b) == a.k = "num" /\ b.k = "num" /\ a.v <= b.v

\* The builtins min(a, b) and max(a, b): the first argument is kept unless
\* the second compares strictly smaller (larger).
PyMin(a, b) == IF FloatLt(b, a) THEN b ELSE a
PyMax(a, b) == IF FloatGt(b, a) THEN b ELSE a

\* float(d.get(key, 0.0)): 0.0 for an absent key, the number (or NaN) for a
\* numeric value, an exception for anything else.
FloatRaises(raw) == raw.k = "bad"
PyFloat(raw) == IF raw.k = "absent" THEN Num(0) ELSE raw

\* ------------------------------------------------------------------ Twist
Twist(lx, ly, az) ==
    [lx |-> lx, ly |-> ly, lz |-> Num(0), ax |-> Num(0), ay |-> Num(0), az |-> az]

ZeroTwist == Twist(Num(0), Num(0), Num(0))

\* _clamp(value, limit)
\* (Mutant: without the test of line 168.)
ClampMutNoGuard(value, limit) ==
    PyMax(PyMin(value, Num(limit)), Num(0 - limit))

Clamp(value, limit) ==
    IF limit <= 0 THEN Num(0) ELSE PyMax(PyMin(value, Num(limit)), Num(0 - limit))

\* ---------------------------------------------------------------- payload
\* The dict handed to _to_twist: "linear" and "angular" are a mapping, absent
\* or something that is no mapping; x, y, z are raw JSON values.
Data(lk, x, y, ak, z) ==
    [linear |-> [k |-> lk, x |-> x, y |-> y], angular |-> [k |-> ak, z |-> z]]

PayloadNames ==
    {"pSlow", "pFast", "pNaN", "pEmpty", "pBadX", "pBadY", "pLinearNoMap", "pAngularNoMap"}

Payload(n) ==
    CASE n = "pSlow"         -> Data("map", Num(1), Absent, "map", Num(0))
      [] n = "pFast"         -> Data("map", Num(3), Num(0 - 3), "map", Num(0 - 3))
      [] n = "pNaN"          -> Data("map", NaN, Num(0), "map", Num(0))
      [] n = "pEmpty"        -> Data("absent", Absent, Absent, "absent", Absent)
      [] n = "pBadX"         -> Data("map", Bad, Num(0), "map", Num(1))
      [] n = "pBadY"         -> Data("map", Num(1), Bad, "map", Num(0))
      [] n = "pLinearNoMap"  -> Data("nomap", Absent, Absent, "map", Num(1))
      [] n = "pAngularNoMap" -> Data("map", Num(1), Num(0), "nomap", Absent)

\* _to_twist raises: .get on a value that is no mapping, or float() of a
\* malformed value.  linear.y is converted whether or not lateral motion is
\* allowed.
ToTwistRaises(data) ==
    \/ data.linear.k = "nomap"
    \/ data.angular.k = "nomap"
    \/ FloatRaises(data.linear.x)
    \/ FloatRaises(data.linear.y)
    \/ FloatRaises(data.angular.z)

\* _to_twist(data), when it does not raise, for given values of
\* self.allow_y_motion and of the three limits.
\* (Mutant: linear.y is clamped whether or not lateral motion is allowed.)
ToTwistLimitsMutClampsY(data, allow_y, linear_limit, side_limit, angular_limit) ==
    Twist(Clamp(PyFloat(data.linear.x), linear_limit),
          Clamp(PyFloat(data.linear.y), side_limit),
          Clamp(PyFloat(data.angular.z), angular_limit))

ToTwistLimits(data, allow_y, linear_limit, side_limit, angular_limit) ==
    Twist(Clamp(PyFloat(data.linear.x), linear_limit),
          IF allow_y THEN Clamp(PyFloat(data.linear.y), side_limit) ELSE Num(0),
          Clamp(PyFloat(data.angular.z), angular_limit))

\* _to_twist(data) with the limits of this configuration.
ToTwist(data, allow_y) ==
    ToTwistLimits(data, allow_y, max_linear_speed, max_side_speed, max_angular_speed)

\* --------------------------------------------------------------- response
\* Text is a sequence of tokens: "{", "}", " " (whitespace), "x" (any other
\* character) and the name of a payload (the numbers of its members).  The
\* JSON text of a payload is an object that holds an object ("linear",
\* "angular"); the empty payload is {}.
ToJson(n) == IF n = "pEmpty" THEN <<"{", "}">> ELSE <<"{", "{", n, "}", "}">>

RECURSIVE LStrip(_)
LStrip(s) == IF s # <<>> /\ Head(s) = " " THEN LStrip(Tail(s)) ELSE s

RECURSIVE RStrip(_)
RStrip(s) ==
    IF s # <<>> /\ s[Len(s)] = " " THEN RStrip(SubSeq(s, 1, Len(s) - 1)) ELSE s

\* str.strip()
Strip(s) == RStrip(LStrip(s))

\* str.find and str.rfind of one character, 1-based; 0 when it is absent.
\* (Mutant: find gives the last place.)
FindMutLast(s, c) ==
    IF \E i \in 1..Len(s) : s[i] = c
    THEN CHOOSE i \in 1..Len(s) : s[i] = c /\ \A j \in (i + 1)..Len(s) : s[j] # c
    ELSE 0

Find(s, c) ==
    IF \E i \in 1..Len(s) : s[i] = c
    THEN CHOOSE i \in 1..Len(s) : s[i] = c /\ \A j \in 1..(i - 1) : s[j] # c
    ELSE 0

RFind(s, c) ==
    IF \E i \in 1..Len(s) : s[i] = c
    THEN CHOOSE i \in 1..Len(s) : s[i] = c /\ \A j \in (i + 1)..Len(s) : s[j] # c
    ELSE 0

\* json.loads of a slice: one JSON object, or JSONDecodeError.
JsonParses(s) ==
    \/ s = <<"{", "}">>
    \/ /\ Len(s) = 5
       /\ s[1] = "{" /\ s[2] = "{" /\ s[4] = "}" /\ s[5] = "}"
       /\ s[3] \in PayloadNames \ {"pEmpty"}

JsonLoads(s) == IF s = <<"{", "}">> THEN "pEmpty" ELSE s[3]

\* The content _extract_twist finds: a dict, or text.
DictContent(n) == [k |-> "dict", data |-> n, text |-> <<>>]
TextContent(s) == [k |-> "text", data |-> "pEmpty", text |-> s]

Texts ==
    {ToJson("pFast"), ToJson("pEmpty"),
     <<" ", "x">> \o ToJson("pSlow") \o <<"x", " ">>,
     <<"x">>, <<"{", "{", "pSlow">>, <<"pSlow", "}", "}">>, <<"}", "pSlow", "{">>,
     <<"{", "x", "}">>,
     ToJson("pSlow") \o <<"x">> \o ToJson("pFast")}

Contents == {DictContent(n) : n \in PayloadNames} \cup {TextContent(s) : s \in Texts}

\* What session.post brings back: a transport error or timeout, a non-2xx
\* status, or a JSON body in the choices[0].message.content shape or in the
\* flat content shape.
Responses ==
    {[kind |-> kd, content |-> TextContent(<<>>)] : kd \in {"transport", "status"}}
    \cup {[kind |-> kd, content |-> c] : kd \in {"choices", "flat"}, c \in Contents}

\* response.json(): the dict handed to _extract_twist.  "choices" stands for
\* choices[0].message.content and "content" for the key of that name; a key
\* may be missing.
MissingKey == [k |-> "missing", data |-> "pEmpty", text |-> <<>>]

ResponseJson(resp) ==
    IF resp.kind = "choices"
    THEN [choices |-> resp.content, content |-> MissingKey]
    ELSE [choices |-> MissingKey, content |-> resp.content]

\* Lines 126-131: the content of the "choices" shape when the key is there,
\* of the flat shape otherwise; "" when there is none.
ContentOf(response_json) ==
    LET found == IF response_json.choices # MissingKey
                 THEN response_json.choices
                 ELSE response_json.content
    IN IF found = MissingKey THEN TextContent(<<>>) ELSE found

ExtractSlice(content) ==
    LET text == Strip(content.text)
    IN SubSeq(text, Find(text, "{"), RFind(text, "}"))

\* _extract_twist raises ValueError.
ExtractRaises(content) ==
    /\ content.k = "text"
    /\ LET text == Strip(content.text)
       IN \/ Find(text, "{") = 0
          \/ RFind(text, "}") = 0
          \/ ~JsonParses(ExtractSlice(content))

\* _extract_twist(response_json), when it does not raise: the name of the
\* payload.
ExtractTwist(content) ==
    IF content.k = "dict" THEN content.data ELSE JsonLoads(ExtractSlice(content))

\* The call of the try block of _instruction_callback that raises, "none"
\* when none does.
Raised(resp) ==
    IF resp.kind = "transport" THEN "post"
    ELSE IF resp.kind = "status" THEN "raise_for_status"
    ELSE IF ExtractRaises(ContentOf(ResponseJson(resp))) THEN "_extract_twist"
    ELSE IF ToTwistRaises(Payload(ExtractTwist(ContentOf(ResponseJson(resp))))) THEN "_to_twist"
    ELSE "none"

RequestFails(resp) == Raised(resp) # "none"

\* The responses of the runs with two overlapping callbacks: a timeout and
\* two commands.
RaceResponses ==
    {r \in Responses :
        \/ r.kind = "transport"
        \/ r.kind = "flat" /\ r.content \in {DictContent("pSlow"), TextContent(ToJson("pFast"))}}

\* ------------------------------------------------------------------ state
Handlers == {"h1", "h2"}     \* threads that run _instruction_callback
Solo == {"h1"}               \* one publisher on the instruction topic
TimerThread == "timer"       \* the thread of rospy.Timer
ServiceThread == "srv"       \* the thread that serves ~stop
MainThread == "main"         \* the thread of main(): rospy.spin(), then _apply_stop
Threads == Handlers \cup {ServiceThread, TimerThread, MainThread}

\* Directives as token sequences: empty, whitespace only, text.
Directives == {<<>>, <<" ", " ">>, <<" ", "x">>}

VARIABLES
    now,                \* rospy.Time.now()
    allow_y_motion,     \* ~allow_y_motion
    command_lock,       \* _command_lock: its holder, or "free"
    current_cmd,        \* _current_cmd
    last_command_time,  \* _last_command_time
    pc,                 \* where each thread stands
    twist_cmd,          \* twist_cmd of each _instruction_callback
    exc,                \* exc of each _instruction_callback: the call that raised
    age,                \* age of _timer_publish
    publish_cmd,        \* publish_cmd of _timer_publish
    cmd_out,            \* the last message sent by cmd_publisher.publish and the method that sent it
    stop_response,      \* the last TriggerResponse.success of _handle_stop
    cmd_writer,         \* the write that stored current_cmd
    time_writer,        \* the write that stored last_command_time
    first_issued,       \* the handler that was already running when the other began
    arrival,            \* history: the last directive each callback got (stripped) and when
    installed,          \* history: the commands that line 105 has stored so far
    arg,                \* one call of _clamp, _to_twist or _extract_twist: its arguments
    ret                 \* what that call returned or raised

vars ==
    <<now, allow_y_motion, command_lock, current_cmd, last_command_time, pc,
      twist_cmd, exc, age, publish_cmd, cmd_out, stop_response, cmd_writer, time_writer,
      first_issued, arrival, installed, arg, ret>>

\* Groups of variables, for the UNCHANGED clauses.
config == <<now, allow_y_motion>>
slot_cmd == <<current_cmd, cmd_writer>>
slot_time == <<last_command_time, time_writer>>
sink == <<cmd_out, stop_response>>
handler_locals == <<twist_cmd, exc>>
timer_locals == <<age, publish_cmd>>
history == <<arrival, installed>>
call == <<arg, ret>>

Write(t, op) == [by |-> t, op |-> op]

\* The age test of _timer_publish (line 175, negated) for a clock reading n.
Fresh(n) == ~(n - last_command_time > command_hold_duration)

\* __init__: the zero Twist, rospy.Time(0.0), all threads waiting.
\* (Mutant: a command is held from the start.)
InitMutHoldsCommand ==
    /\ now = 0
    /\ allow_y_motion \in BOOLEAN
    /\ command_lock = "free"
    /\ current_cmd = Twist(Num(1), Num(0), Num(0))
    /\ last_command_time = 0
    /\ pc = [t \in Threads |-> IF t = MainThread THEN "spin" ELSE "idle"]
    /\ twist_cmd = [h \in Handlers |-> ZeroTwist]
    /\ exc = [h \in Handlers |-> "none"]
    /\ age = 0
    /\ publish_cmd = ZeroTwist
    /\ cmd_out = <<>>
    /\ stop_response = "none"
    /\ cmd_writer = Write("init", "init")
    /\ time_writer = Write("init", "init")
    /\ first_issued = "none"

Init ==
    /\ now = 0
    /\ allow_y_motion \in BOOLEAN
    /\ command_lock = "free"
    /\ current_cmd = ZeroTwist
    /\ last_command_time = 0
    /\ pc = [t \in Threads |-> IF t = MainThread THEN "spin" ELSE "idle"]
    /\ twist_cmd = [h \in Handlers |-> ZeroTwist]
    /\ exc = [h \in Handlers |-> "none"]
    /\ age = 0
    /\ publish_cmd = ZeroTwist
    /\ cmd_out = <<>>
    /\ stop_response = "none"
    /\ cmd_writer = Write("init", "init")
    /\ time_writer = Write("init", "init")
    /\ first_issued = "none"

\* Nothing is on record, and no function is called on its own.
NoCall == [fn |-> "none"]
NoResult == [k |-> "none"]

Start ==
    /\ Init
    /\ arrival = [h \in Handlers |-> [text |-> <<>>, at |-> 0]]
    /\ installed = {}
    /\ arg = NoCall
    /\ ret = NoResult

\* The clock moves on.
Advance ==
    /\ now < MaxTime
    /\ now' = now + 1
    /\ UNCHANGED <<allow_y_motion, command_lock, slot_cmd, slot_time, pc, handler_locals,
                   timer_locals, sink, first_issued>>

\* ------------------------------------------------- _instruction_callback
\* Lines 87-92: an empty directive returns; any other goes to the remote
\* call (twist_cmd is not bound yet).
\* (Mutants: the lock is taken before the remote call; an empty directive is
\* sent to the remote service like any other.)
ReceiveMutForwardsEmpty(h, msg) ==
    /\ pc[h] = "idle"
    /\ pc' = [pc EXCEPT ![h] = "post"]
    /\ twist_cmd' = [twist_cmd EXCEPT ![h] = ZeroTwist]
    /\ first_issued' =
           IF \E g \in Handlers \ {h} : pc[g] # "idle"
           THEN CHOOSE g \in Handlers \ {h} : pc[g] # "idle"
           ELSE "none"
    /\ UNCHANGED <<config, command_lock, slot_cmd, slot_time, exc, timer_locals, sink>>

ReceiveMutHoldsLock(h, msg) ==
    /\ pc[h] = "idle"
    /\ Strip(msg) # <<>>
    /\ command_lock = "free"
    /\ command_lock' = h
    /\ pc' = [pc EXCEPT ![h] = "post"]
    /\ twist_cmd' = [twist_cmd EXCEPT ![h] = ZeroTwist]
    /\ UNCHANGED <<config, slot_cmd, slot_time, exc, timer_locals, sink, first_issued>>

Receive(h, msg) ==
    /\ pc[h] = "idle"
    /\ IF Strip(msg) = <<>>
       THEN UNCHANGED <<pc, twist_cmd, first_issued>>
       ELSE /\ pc' = [pc EXCEPT ![h] = "post"]
            /\ twist_cmd' = [twist_cmd EXCEPT ![h] = ZeroTwist]
            /\ first_issued' =
                   IF \E g \in Handlers \ {h} : pc[g] # "idle"
                   THEN CHOOSE g \in Handlers \ {h} : pc[g] # "idle"
                   ELSE "none"
    /\ UNCHANGED <<config, command_lock, slot_cmd, slot_time, exc, timer_locals, sink>>

\* Lines 93-102: the remote call returns; on any exception the callback goes
\* on to _apply_stop, else it binds twist_cmd.
Respond(h, resp) ==
    /\ pc[h] = "post"
    /\ IF RequestFails(resp)
       THEN /\ pc' = [pc EXCEPT ![h] = "stop_cmd"]
            /\ exc' = [exc EXCEPT ![h] = Raised(resp)]
            /\ UNCHANGED twist_cmd
       ELSE /\ pc' = [pc EXCEPT ![h] = "set_cmd"]
            /\ twist_cmd' =
                   [twist_cmd EXCEPT
                       ![h] = ToTwist(Payload(ExtractTwist(ContentOf(ResponseJson(resp)))),
                                      allow_y_motion)]
            /\ UNCHANGED exc
    /\ UNCHANGED <<config, command_lock, slot_cmd, slot_time, timer_locals, sink,
                   first_issued>>

\* Lines 104-105: take the lock, store the command.
\* (Mutants: the command is stored without the lock; a directive that was
\* issued before the other one does not overwrite.)
SetCmdMutNoLock(h) ==
    /\ pc[h] = "set_cmd"
    /\ current_cmd' = twist_cmd[h]
    /\ cmd_writer' = Write(h, "set")
    /\ pc' = [pc EXCEPT ![h] = "set_time"]
    /\ UNCHANGED <<config, command_lock, slot_time, handler_locals, timer_locals, sink,
                   first_issued>>

SetCmdMutIssueOrder(h) ==
    /\ pc[h] = "set_cmd"
    /\ command_lock = "free"
    /\ command_lock' = h
    /\ IF first_issued = h /\ cmd_writer.op = "set"
       THEN UNCHANGED slot_cmd
       ELSE current_cmd' = twist_cmd[h] /\ cmd_writer' = Write(h, "set")
    /\ pc' = [pc EXCEPT ![h] = "set_time"]
    /\ UNCHANGED <<config, slot_time, handler_locals, timer_locals, sink, first_issued>>

SetCmd(h) ==
    /\ pc[h] = "set_cmd"
    /\ command_lock = "free"
    /\ command_lock' = h
    /\ current_cmd' = twist_cmd[h]
    /\ cmd_writer' = Write(h, "set")
    /\ pc' = [pc EXCEPT ![h] = "set_time"]
    /\ UNCHANGED <<config, slot_time, handler_locals, timer_locals, sink, first_issued>>

\* Line 106: stamp the command with the clock, release the lock, return.
\* (Mutant: the stamp is the time the directive arrived.)
SetTimeMutStampsArrival(h) ==
    /\ pc[h] = "set_time"
    /\ last_command_time' = arrival[h].at
    /\ time_writer' = Write(h, "set")
    /\ command_lock' = "free"
    /\ pc' = [pc EXCEPT ![h] = "idle"]
    /\ UNCHANGED <<config, slot_cmd, handler_locals, timer_locals, sink, first_issued>>

SetTime(h) ==
    /\ pc[h] = "set_time"
    /\ last_command_time' = now
    /\ time_writer' = Write(h, "set")
    /\ command_lock' = "free"
    /\ pc' = [pc EXCEPT ![h] = "idle"]
    /\ UNCHANGED <<config, slot_cmd, handler_locals, timer_locals, sink, first_issued>>

\* ------------------------------------------------------------ _apply_stop
\* The kind of a reset, for the record of writes: "stop" is a call of ~stop
\* that finds a fresh command that is not zero.
ResetKind(t) ==
    IF t = ServiceThread /\ Fresh(now) /\ current_cmd # ZeroTwist THEN "stop" ELSE "reset"

\* Lines 182-183: take the lock, store the zero Twist.
\* (Mutant: the command is left as it is.)
StopCmdMutKeepsCmd(t) ==
    /\ pc[t] = "stop_cmd"
    /\ command_lock = "free"
    /\ command_lock' = t
    /\ current_cmd' = current_cmd
    /\ cmd_writer' = Write(t, ResetKind(t))
    /\ pc' = [pc EXCEPT ![t] = "stop_time"]
    /\ UNCHANGED <<config, slot_time, handler_locals, timer_locals, sink, first_issued>>

StopCmd(t) ==
    /\ pc[t] = "stop_cmd"
    /\ command_lock = "free"
    /\ command_lock' = t
    /\ current_cmd' = ZeroTwist
    /\ cmd_writer' = Write(t, ResetKind(t))
    /\ pc' = [pc EXCEPT ![t] = "stop_time"]
    /\ UNCHANGED <<config, slot_time, handler_locals, timer_locals, sink, first_issued>>

\* Line 184: store rospy.Time(0.0), release the lock.
\* (Mutant: the reset is stamped with the clock.)
StopTimeMutStampsNow(t) ==
    /\ pc[t] = "stop_time"
    /\ last_command_time' = now
    /\ time_writer' = Write(t, IF cmd_writer.by = t THEN cmd_writer.op ELSE "reset")
    /\ command_lock' = "free"
    /\ pc' = [pc EXCEPT ![t] = "stop_pub"]
    /\ UNCHANGED <<config, slot_cmd, handler_locals, timer_locals, sink, first_issued>>

StopTime(t) ==
    /\ pc[t] = "stop_time"
    /\ last_command_time' = 0
    /\ time_writer' = Write(t, IF cmd_writer.by = t THEN cmd_writer.op ELSE "reset")
    /\ command_lock' = "free"
    /\ pc' = [pc EXCEPT ![t] = "stop_pub"]
    /\ UNCHANGED <<config, slot_cmd, handler_locals, timer_locals, sink, first_issued>>

\* Line 185, and the return of the caller: line 102 of the callback, line 189
\* of _handle_stop, the end of main.
\* (Mutant: a call of ~stop publishes nothing.)
StopPublishMutSilentService(t) ==
    /\ pc[t] = "stop_pub"
    /\ cmd_out' = IF t = ServiceThread
                  THEN cmd_out
                  ELSE <<[msg |-> ZeroTwist, by |-> "_apply_stop"]>>
    /\ pc' = [pc EXCEPT ![t] = IF t = MainThread THEN "exited" ELSE "idle"]
    /\ stop_response' = IF t = ServiceThread THEN "success" ELSE stop_response
    /\ exc' = [h \in Handlers |-> IF h = t THEN "none" ELSE exc[h]]
    /\ UNCHANGED <<config, command_lock, slot_cmd, slot_time, twist_cmd, timer_locals,
                   first_issued>>

StopPublish(t) ==
    /\ pc[t] = "stop_pub"
    /\ cmd_out' = <<[msg |-> ZeroTwist, by |-> "_apply_stop"]>>
    /\ pc' = [pc EXCEPT ![t] = IF t = MainThread THEN "exited" ELSE "idle"]
    /\ stop_response' = IF t = ServiceThread THEN "success" ELSE stop_response
    /\ exc' = [h \in Handlers |-> IF h = t THEN "none" ELSE exc[h]]
    /\ UNCHANGED <<config, command_lock, slot_cmd, slot_time, twist_cmd, timer_locals,
                   first_issued>>

\* ----------------------------------------------------------- _handle_stop
\* Line 188: a call of ~stop enters _apply_stop.
HandleStop ==
    /\ pc[ServiceThread] = "idle"
    /\ pc' = [pc EXCEPT ![ServiceThread] = "stop_cmd"]
    /\ UNCHANGED <<config, command_lock, slot_cmd, slot_time, handler_locals,
                   timer_locals, sink, first_issued>>

\* ------------------------------------------------------------------- main
\* Lines 195-196: rospy.spin() returns when the node shuts down, and main
\* goes on to _apply_stop.
Shutdown ==
    /\ pc[MainThread] = "spin"
    /\ pc' = [pc EXCEPT ![MainThread] = "stop_cmd"]
    /\ UNCHANGED <<config, command_lock, slot_cmd, slot_time, handler_locals,
                   timer_locals, sink, first_issued>>

\* rospy.spin() has not returned: callbacks, ticks and calls of ~stop begin.
Spinning == pc[MainThread] = "spin"
\* main has returned: the process, with its threads, is gone.
Exited == pc[MainThread] = "exited"

\* --------------------------------------------------------- _timer_publish
\* Lines 173-174: take the lock, compute the age of the command.
TimerAge ==
    /\ pc[TimerThread] = "idle"
    /\ command_lock = "free"
    /\ command_lock' = TimerThread
    /\ age' = now - last_command_time
    /\ pc' = [pc EXCEPT ![TimerThread] = "branch"]
    /\ UNCHANGED <<config, slot_cmd, slot_time, handler_locals, publish_cmd, sink,
                   first_issued>>

\* Lines 175-178: choose the zero Twist or the held command, release the lock.
\* (Mutants: the boundary age counted as stale; no expiry at all; a stale
\* command is reset in the slot.)
TimerBranchMutWritesBack ==
    /\ pc[TimerThread] = "branch"
    /\ publish_cmd' = IF age > command_hold_duration THEN ZeroTwist ELSE current_cmd
    /\ current_cmd' = IF age > command_hold_duration THEN ZeroTwist ELSE current_cmd
    /\ last_command_time' = IF age > command_hold_duration THEN 0 ELSE last_command_time
    /\ command_lock' = "free"
    /\ pc' = [pc EXCEPT ![TimerThread] = "publish"]
    /\ UNCHANGED <<config, cmd_writer, time_writer, handler_locals, age, sink, first_issued>>

TimerBranchMutStrict ==
    /\ pc[TimerThread] = "branch"
    /\ publish_cmd' = IF age >= command_hold_duration THEN ZeroTwist ELSE current_cmd
    /\ command_lock' = "free"
    /\ pc' = [pc EXCEPT ![TimerThread] = "publish"]
    /\ UNCHANGED <<config, slot_cmd, slot_time, handler_locals, age, sink, first_issued>>

TimerBranchMutNoExpiry ==
    /\ pc[TimerThread] = "branch"
    /\ publish_cmd' = current_cmd
    /\ command_lock' = "free"
    /\ pc' = [pc EXCEPT ![TimerThread] = "publish"]
    /\ UNCHANGED <<config, slot_cmd, slot_time, handler_locals, age, sink, first_issued>>

TimerBranch ==
    /\ pc[TimerThread] = "branch"
    /\ publish_cmd' = IF age > command_hold_duration THEN ZeroTwist ELSE current_cmd
    /\ command_lock' = "free"
    /\ pc' = [pc EXCEPT ![TimerThread] = "publish"]
    /\ UNCHANGED <<config, slot_cmd, slot_time, handler_locals, age, sink, first_issued>>

\* Line 179: publish outside the lock, return.
TimerPublish ==
    /\ pc[TimerThread] = "publish"
    /\ cmd_out' = <<[msg |-> publish_cmd, by |-> "_timer_publish"]>>
    /\ age' = 0
    /\ publish_cmd' = ZeroTwist
    /\ pc' = [pc EXCEPT ![TimerThread] = "idle"]
    /\ UNCHANGED <<config, command_lock, slot_cmd, slot_time, handler_locals,
                   stop_response, first_issued>>

\* ---------------------------------------------------------- specification
\* One publisher on the instruction topic: callbacks run one after another.
Next ==
    \/ Advance /\ UNCHANGED <<history, call>>
    \/ \E h \in Solo, msg \in Directives : Receive(h, msg) /\ UNCHANGED <<history, call>>
    \/ \E h \in Solo, resp \in Responses : Respond(h, resp) /\ UNCHANGED <<history, call>>
    \/ \E h \in Solo : SetCmd(h) /\ UNCHANGED <<history, call>>
    \/ \E h \in Solo : SetTime(h) /\ UNCHANGED <<history, call>>
    \/ \E t \in Solo \cup {ServiceThread} : StopCmd(t) /\ UNCHANGED <<history, call>>
    \/ \E t \in Solo \cup {ServiceThread} : StopTime(t) /\ UNCHANGED <<history, call>>
    \/ \E t \in Solo \cup {ServiceThread} : StopPublish(t) /\ UNCHANGED <<history, call>>
    \/ HandleStop /\ UNCHANGED <<history, call>>
    \/ TimerAge /\ UNCHANGED <<history, call>>
    \/ TimerBranch /\ UNCHANGED <<history, call>>
    \/ TimerPublish /\ UNCHANGED <<history, call>>

Spec == Start /\ [][Next]_vars

\* Two publishers on the instruction topic: rospy runs the callback on the
\* thread of each connection, so two callbacks overlap.  Lateral motion is off
\* (the default of ~allow_y_motion).
InitRace == Start /\ allow_y_motion = FALSE

NextRace ==
    \/ Advance /\ UNCHANGED <<history, call>>
    \/ \E h \in Handlers, msg \in Directives : Receive(h, msg) /\ UNCHANGED <<history, call>>
    \/ \E h \in Handlers, resp \in RaceResponses :
           Respond(h, resp) /\ UNCHANGED <<history, call>>
    \/ \E h \in Handlers : SetCmd(h) /\ UNCHANGED <<history, call>>
    \/ \E h \in Handlers : SetTime(h) /\ UNCHANGED <<history, call>>
    \/ \E t \in Handlers \cup {ServiceThread} : StopCmd(t) /\ UNCHANGED <<history, call>>
    \/ \E t \in Handlers \cup {ServiceThread} : StopTime(t) /\ UNCHANGED <<history, call>>
    \/ \E t \in Handlers \cup {ServiceThread} : StopPublish(t) /\ UNCHANGED <<history, call>>
    \/ HandleStop /\ UNCHANGED <<history, call>>
    \/ TimerAge /\ UNCHANGED <<history, call>>
    \/ TimerBranch /\ UNCHANGED <<history, call>>
    \/ TimerPublish /\ UNCHANGED <<history, call>>

SpecRace == InitRace /\ [][NextRace]_vars

\* One publisher, with the record of what happened: the directive each
\* callback got last, and the commands stored by line 105.
Recorded(h, msg) == [arrival EXCEPT ![h] = [text |-> Strip(msg), at |-> now]]

NextHistory ==
    \/ Advance /\ UNCHANGED <<history, call>>
    \/ \E h \in Solo, msg \in Directives :
           Receive(h, msg) /\ arrival' = Recorded(h, msg) /\ UNCHANGED <<installed, call>>
    \/ \E h \in Solo, resp \in RaceResponses :
           Respond(h, resp) /\ UNCHANGED <<history, call>>
    \/ \E h \in Solo :
           SetCmd(h) /\ installed' = installed \cup {twist_cmd[h]} /\ UNCHANGED <<arrival, call>>
    \/ \E h \in Solo : SetTime(h) /\ UNCHANGED <<history, call>>
    \/ \E t \in Solo \cup {ServiceThread} : StopCmd(t) /\ UNCHANGED <<history, call>>
    \/ \E t \in Solo \cup {ServiceThread} : StopTime(t) /\ UNCHANGED <<history, call>>
    \/ \E t \in Solo \cup {ServiceThread} : StopPublish(t) /\ UNCHANGED <<history, call>>
    \/ HandleStop /\ UNCHANGED <<history, call>>
    \/ TimerAge /\ UNCHANGED <<history, call>>
    \/ TimerBranch /\ UNCHANGED <<history, call>>
    \/ TimerPublish /\ UNCHANGED <<history, call>>

SpecHistory == InitRace /\ [][NextHistory]_vars

\* One publisher, and the node shuts down at some point: nothing begins once
\* rospy.spin() has returned, what is under way goes on until main returns.
NextShutdown ==
    \/ ~Exited /\ Advance /\ UNCHANGED <<history, call>>
    \/ \E h \in Solo, msg \in Directives :
           Spinning /\ Receive(h, msg) /\ UNCHANGED <<history, call>>
    \/ \E h \in Solo, resp \in RaceResponses :
           ~Exited /\ Respond(h, resp) /\ UNCHANGED <<history, call>>
    \/ \E h \in Solo : ~Exited /\ SetCmd(h) /\ UNCHANGED <<history, call>>
    \/ \E h \in Solo : ~Exited /\ SetTime(h) /\ UNCHANGED <<history, call>>
    \/ \E t \in Solo \cup {ServiceThread, MainThread} :
           ~Exited /\ StopCmd(t) /\ UNCHANGED <<history, call>>
    \/ \E t \in Solo \cup {ServiceThread, MainThread} :
           ~Exited /\ StopTime(t) /\ UNCHANGED <<history, call>>
    \/ \E t \in Solo \cup {ServiceThread, MainThread} :
           ~Exited /\ StopPublish(t) /\ UNCHANGED <<history, call>>
    \/ Spinning /\ HandleStop /\ UNCHANGED <<history, call>>
    \/ Spinning /\ TimerAge /\ UNCHANGED <<history, call>>
    \/ ~Exited /\ TimerBranch /\ UNCHANGED <<history, call>>
    \/ ~Exited /\ TimerPublish /\ UNCHANGED <<history, call>>
    \/ Shutdown /\ UNCHANGED <<history, call>>

SpecShutdown == InitRace /\ [][NextShutdown]_vars

\* ------------------------------------------- the three functions, alone
\* One call of _clamp, of _to_twist or of _extract_twist with arguments drawn
\* from the sets below; the bridge itself stands still.
bridge ==
    <<config, command_lock, slot_cmd, slot_time, pc, handler_locals, timer_locals, sink,
      first_issued>>

FloatValues == {Num(n) : n \in (0 - MaxValue)..MaxValue} \cup {NaN}
Limits == (0 - 1)..MaxLimit

ClampArgs == {[fn |-> "_clamp", value |-> v, limit |-> l] : v \in FloatValues, l \in Limits}

ToTwistData ==
    {Payload(n) : n \in PayloadNames}
    \cup {Data("map", Num(1), y, "map", Num(1)) : y \in FloatValues \cup {Absent, Bad}}

ToTwistArgs ==
    {[fn |-> "_to_twist", data |-> d, allow_y |-> a, side |-> l] :
        d \in ToTwistData, a \in BOOLEAN, l \in Limits}

ResponseJsons ==
    {ResponseJson(r) : r \in {q \in Responses : q.kind \in {"choices", "flat"}}}
    \cup {[choices |-> MissingKey, content |-> MissingKey]}
    \cup {[choices |-> c, content |-> d] :
             c \in {TextContent(ToJson("pSlow")), TextContent(<<"x">>)},
             d \in {TextContent(ToJson("pFast")), DictContent("pFast")}}

ExtractArgs == {[fn |-> "_extract_twist", response_json |-> j] : j \in ResponseJsons}

Return(v) == [k |-> "return", v |-> v]
Raise(e) == [k |-> "raise", v |-> e]

InitCall ==
    /\ Init
    /\ arrival = [h \in Handlers |-> [text |-> <<>>, at |-> 0]]
    /\ installed = {}
    /\ arg \in ClampArgs \cup ToTwistArgs \cup ExtractArgs
    /\ ret = NoResult

CallClamp ==
    /\ arg.fn = "_clamp"
    /\ ret.k = "none"
    /\ ret' = Return(Clamp(arg.value, arg.limit))
    /\ UNCHANGED <<bridge, history, arg>>

CallToTwist ==
    /\ arg.fn = "_to_twist"
    /\ ret.k = "none"
    /\ ret' = IF ToTwistRaises(arg.data)
              THEN Raise("_to_twist")
              ELSE Return(ToTwistLimits(arg.data, arg.allow_y, max_linear_speed, arg.side,
                                        max_angular_speed))
    /\ UNCHANGED <<bridge, history, arg>>

CallExtractTwist ==
    /\ arg.fn = "_extract_twist"
    /\ ret.k = "none"
    /\ ret' = IF ExtractRaises(ContentOf(arg.response_json))
              THEN Raise("ValueError")
              ELSE Return(ExtractTwist(ContentOf(arg.response_json)))
    /\ UNCHANGED <<bridge, history, arg>>

NextCall == CallClamp \/ CallToTwist \/ CallExtractTwist

SpecCall == InitCall /\ [][NextCall]_vars

\* ------------------------------------------------------------------ steps
TimerAges == pc[TimerThread] = "idle" /\ pc'[TimerThread] = "branch"
TimerBranches == pc[TimerThread] = "branch" /\ pc'[TimerThread] = "publish"
TimerPublishes == pc[TimerThread] = "publish" /\ pc'[TimerThread] = "idle"
StopPublishes(t) == pc[t] = "stop_pub" /\ pc'[t] = "idle"
Publishes == TimerPublishes \/ \E t \in Handlers \cup {ServiceThread} : StopPublishes(t)

TickMessage(twist) == [msg |-> twist, by |-> "_timer_publish"]
StopMessage == [msg |-> ZeroTwist, by |-> "_apply_stop"]

\* The slot holds what one reset wrote, and nothing has been set since.
AfterReset ==
    /\ cmd_writer.op \in {"reset", "stop"}
    /\ time_writer = cmd_writer

\* The slot holds what one set wrote.
AfterSet ==
    /\ cmd_writer.op = "set"
    /\ time_writer = cmd_writer

\* ----------------------------------------------------------------- claims
\* C1: a publish tick computes the age of the held command from the clock
\* and its time stamp when it takes its snapshot; it emits the held command
\* when that age is at most command_hold_duration (the boundary included)
\* and the zero command when it is larger.
C1_TickEmitsHeldIffFresh ==
    [][ /\ TimerAges => age' = now - last_command_time
        /\ TimerBranches =>
               publish_cmd' = IF age <= command_hold_duration THEN current_cmd ELSE ZeroTwist
        /\ TimerPublishes => cmd_out' = <<TickMessage(publish_cmd)>> ]_vars

\* A tick that found the age equal to command_hold_duration is about to emit
\* the held command, which is not zero.
C1_Witness ==
    /\ pc[TimerThread] = "publish"
    /\ age = command_hold_duration
    /\ publish_cmd # ZeroTwist
    /\ publish_cmd = current_cmd

\* C2: when more than command_hold_duration has passed since a set stamped
\* the command, the tick finds it stale and emits the zero command, and it
\* does so by itself: the slot still holds what the set wrote.
C2_ExpiryEmitsZero ==
    [][ /\ (TimerAges /\ AfterSet /\ now - last_command_time > command_hold_duration)
               => age' > command_hold_duration
        /\ (TimerBranches /\ age > command_hold_duration)
               => publish_cmd' = ZeroTwist /\ UNCHANGED <<slot_cmd, slot_time>>
        /\ (TimerPublishes /\ age > command_hold_duration)
               => cmd_out' = <<TickMessage(ZeroTwist)>> /\ UNCHANGED <<slot_cmd, slot_time>>
      ]_vars

\* A tick has emitted zero for a stale command that a set wrote and that is
\* still held.
C2_Witness ==
    /\ pc[TimerThread] = "publish"
    /\ age > command_hold_duration
    /\ publish_cmd = ZeroTwist
    /\ AfterSet
    /\ current_cmd # ZeroTwist
    /\ last_command_time + age <= now

\* C3 (as claimed): a call of ~stop that finds a fresh command that is not
\* zero emits zero at once and answers success, and every message emitted
\* after that zero is zero as long as nothing writes the slot again.
StopDone ==
    /\ pc[ServiceThread] = "idle"
    /\ cmd_writer = Write(ServiceThread, "stop")
    /\ time_writer = cmd_writer

C3_StopSilencesSink ==
    [][ /\ StopPublishes(ServiceThread)
               => cmd_out' = <<StopMessage>> /\ stop_response' = "success"
        /\ (StopDone /\ Publishes) => cmd_out'[1].msg = ZeroTwist ]_vars

\* C4: a callback whose request fails (the transport, the status, the
\* extraction or _to_twist raises) goes through _apply_stop and nothing
\* else: it never sets, it leaves the slot at the zero command and time zero,
\* emits one zero message and returns; a tick that reads the slot before
\* anything is set again chooses the zero command, and emits what it chose.
FailPath == {"stop_cmd", "stop_time", "stop_pub"}

C4_FailureResetsAndEmitsZero ==
    [][ /\ \A h \in Handlers :
               /\ (pc[h] = "post" /\ exc'[h] # "none") => pc'[h] = "stop_cmd"
               /\ pc[h] \in FailPath => pc'[h] \in FailPath \cup {"idle"}
               /\ (pc[h] = "stop_time" /\ pc'[h] # "stop_time")
                      => /\ pc'[h] = "stop_pub"
                         /\ current_cmd' = ZeroTwist
                         /\ last_command_time' = 0
                         /\ command_lock' = "free"
               /\ (pc[h] = "stop_pub" /\ pc'[h] # "stop_pub")
                      => /\ pc'[h] = "idle"
                         /\ cmd_out' = <<StopMessage>>
        /\ (TimerBranches /\ AfterReset) => publish_cmd' = ZeroTwist
        /\ TimerPublishes => cmd_out' = <<TickMessage(publish_cmd)>> ]_vars

\* The callback has failed in _to_twist, reset the slot and emitted zero; a
\* tick that read the slot within command_hold_duration of time zero is about
\* to emit zero.
C4_Witness ==
    /\ pc["h1"] = "stop_pub"
    /\ exc["h1"] = "_to_twist"
    /\ AfterReset
    /\ cmd_writer.by = "h1"
    /\ pc[TimerThread] = "publish"
    /\ age <= command_hold_duration
    /\ publish_cmd = ZeroTwist

\* C5 (as claimed): a tick that reads the slot after a reset, with no set in
\* between, finds it stale (age above command_hold_duration) at any clock
\* reading, and chooses the zero command.
C5_ResetForcesStale ==
    [][ /\ (TimerAges /\ AfterReset) => age' > command_hold_duration
        /\ (TimerBranches /\ AfterReset) => publish_cmd' = ZeroTwist ]_vars

\* C5 (amended): such a tick chooses the zero command at any clock reading,
\* and it finds the slot stale exactly when the clock is above
\* command_hold_duration; up to there the reset slot counts as fresh and the
\* zero command it holds is what the tick takes.
C5_ResetReadsZero ==
    [][ /\ (TimerAges /\ AfterReset)
               => /\ age' = now
                  /\ (age' > command_hold_duration) = (now > command_hold_duration)
        /\ (TimerBranches /\ AfterReset) => publish_cmd' = ZeroTwist ]_vars

\* After a reset and its zero message, a tick has found the slot fresh and
\* taken the zero command from it.
C5_Witness ==
    /\ AfterReset
    /\ cmd_out = <<StopMessage>>
    /\ pc[TimerThread] = "publish"
    /\ age <= command_hold_duration
    /\ age = now
    /\ publish_cmd = ZeroTwist

\* C6 (as claimed): the held command and every message on the sink have
\* linear.z = angular.x = angular.y = 0, |linear.x| <= max_linear_speed,
\* |linear.y| <= max_side_speed, linear.y = 0 when lateral motion is off,
\* and |angular.z| <= max_angular_speed.
Within(f, limit) == FloatLe(f, Num(limit)) /\ FloatLe(Num(0 - limit), f)

TwistWithinLimits(t) ==
    /\ t.lz = Num(0) /\ t.ax = Num(0) /\ t.ay = Num(0)
    /\ Within(t.lx, max_linear_speed)
    /\ Within(t.ly, max_side_speed)
    /\ ~allow_y_motion => t.ly = Num(0)
    /\ Within(t.az, max_angular_speed)

C6_CommandsWithinLimits ==
    /\ TwistWithinLimits(current_cmd)
    /\ \A i \in 1..Len(cmd_out) : TwistWithinLimits(cmd_out[i].msg)

\* C7 (as claimed): _to_twist never raises, so no callback takes the failure
\* path because of it.
C7_ClampNeverFails == \A h \in Handlers : exc[h] # "_to_twist"

\* C8: while a tick is inside its locked section, between reading the time
\* stamp and reading the command, the command and the time stamp are those of
\* one write and no step changes either.
C8_PairReadAsUnit ==
    [][ pc[TimerThread] = "branch"
            => /\ cmd_writer = time_writer
               /\ UNCHANGED <<slot_cmd, slot_time>> ]_vars

\* A tick is inside its locked section while one callback waits to set, the
\* other waits to reset and a call of ~stop waits too.
C8_Witness ==
    /\ pc[TimerThread] = "branch"
    /\ command_lock = TimerThread
    /\ pc["h1"] = "set_cmd"
    /\ pc["h2"] = "stop_cmd"
    /\ pc[ServiceThread] = "stop_cmd"
    /\ AfterSet
    /\ current_cmd # ZeroTwist

\* C9 (as claimed): whenever a callback waits for the remote service, the
\* lock is free.
C9_LockFreeWhileWaiting ==
    (\E h \in Handlers : pc[h] = "post") => command_lock = "free"

\* C9 (amended): a callback that waits for the remote service does not hold
\* the lock; whoever holds it is inside a locked section of two assignments
\* (a set, a reset, a tick), which it leaves without waiting for anything.
LockedSection == {"set_time", "stop_time", "branch"}

C9_WaitingHoldsNoLock ==
    /\ \A h \in Handlers : pc[h] = "post" => command_lock # h
    /\ \A t \in Threads : command_lock = t => pc[t] \in LockedSection
    /\ \A t \in Threads : pc[t] \in LockedSection => command_lock = t

\* One callback waits for the remote service while the other one holds the
\* lock for its set.
C9_Witness ==
    /\ pc["h1"] = "post"
    /\ pc["h2"] = "set_time"
    /\ command_lock = "h2"

\* C10: when no callback is running, nobody is writing the slot and its last
\* stamp is that of a set, the held command is the command of the callback
\* that stamped it, whichever directive was issued first.
C10_LastSetWins ==
    (/\ \A h \in Handlers : pc[h] = "idle"
     /\ command_lock = "free"
     /\ time_writer.op = "set")
        => current_cmd = twist_cmd[time_writer.by]

\* h1 was running when h2 began; both have set, h1 last, and the held command
\* is h1's, not h2's.
C10_Witness ==
    /\ first_issued = "h1"
    /\ \A h \in Handlers : pc[h] = "idle" /\ twist_cmd[h] # ZeroTwist
    /\ twist_cmd["h1"] # twist_cmd["h2"]
    /\ AfterSet
    /\ time_writer.by = "h1"
    /\ current_cmd = twist_cmd["h1"]

\* C11 (as claimed): once the _apply_stop of main has reset the slot, the
\* slot stays {zero, time zero} and every message published is zero, also
\* when a callback or a tick was under way when rospy.spin() returned.
ShutdownReset == pc[MainThread] \in {"stop_pub", "exited"}

AnyPublish ==
    \/ TimerPublishes
    \/ \E t \in Threads : pc[t] = "stop_pub" /\ pc'[t] # "stop_pub"

C11_ShutdownIsLast ==
    [][ ShutdownReset
            => /\ current_cmd' = ZeroTwist
               /\ last_command_time' = 0
               /\ AnyPublish => cmd_out'[1].msg = ZeroTwist ]_vars

\* C12: _apply_stop has the same effect when ~stop calls it and when the
\* failure path of a callback calls it, in whatever state: it stores the zero
\* command, then time zero, and leaves the lock; then it publishes one zero
\* message, and nothing before that; ~stop then answers success.  On a slot
\* that is already {zero, time zero} a call of ~stop changes neither field.
StopCallers == Handlers \cup {ServiceThread}

C12_StopIsFailurePath ==
    [][ /\ \A t \in StopCallers :
               /\ (pc[t] = "stop_cmd" /\ pc'[t] # "stop_cmd")
                      => /\ pc'[t] = "stop_time"
                         /\ current_cmd' = ZeroTwist
                         /\ cmd_out' = cmd_out
               /\ (pc[t] = "stop_time" /\ pc'[t] # "stop_time")
                      => /\ pc'[t] = "stop_pub"
                         /\ current_cmd' = ZeroTwist /\ last_command_time' = 0
                         /\ command_lock' = "free"
                         /\ cmd_out' = cmd_out
               /\ (pc[t] = "stop_pub" /\ pc'[t] # "stop_pub")
                      => /\ pc'[t] = "idle"
                         /\ cmd_out' = <<StopMessage>>
                         /\ UNCHANGED <<current_cmd, last_command_time>>
        /\ StopPublishes(ServiceThread) => stop_response' = "success"
        /\ (/\ pc[ServiceThread] \in {"stop_cmd", "stop_time"}
            /\ pc'[ServiceThread] # pc[ServiceThread]
            /\ current_cmd = ZeroTwist /\ last_command_time = 0)
               => UNCHANGED <<current_cmd, last_command_time>> ]_vars

\* A call of ~stop answered success before; another call, made while a
\* callback waits for the remote service and a tick is about to publish, has
\* reset a slot that held nothing fresh and is about to publish its zero.
C12_Witness ==
    /\ stop_response = "success"
    /\ pc[ServiceThread] = "stop_pub"
    /\ cmd_writer = Write(ServiceThread, "reset")
    /\ time_writer = cmd_writer
    /\ current_cmd = ZeroTwist /\ last_command_time = 0
    /\ pc["h1"] = "post"
    /\ pc[TimerThread] = "publish"

\* C13: a callback that gets an empty or whitespace-only directive returns
\* at once: it does not go to the remote call, takes no lock, leaves the
\* command, its stamp and the sink as they are and raises nothing.
C13_EmptyDirectiveIsNoOp ==
    [][ \A h \in Handlers :
            (arrival'[h] # arrival[h] /\ arrival'[h].text = <<>>)
                => UNCHANGED <<pc, command_lock, slot_cmd, slot_time, sink, handler_locals,
                               timer_locals>> ]_vars

\* The callback that set the held command got an empty directive afterwards,
\* and a tick that read the slot later still is about to publish the held
\* command, which is fresh and not zero.
C13_Witness ==
    /\ AfterSet
    /\ cmd_writer.by = "h1"
    /\ pc["h1"] = "idle"
    /\ arrival["h1"].text = <<>>
    /\ last_command_time <= arrival["h1"].at
    /\ arrival["h1"].at < last_command_time + age
    /\ pc[TimerThread] = "publish"
    /\ age <= command_hold_duration
    /\ publish_cmd = current_cmd
    /\ current_cmd # ZeroTwist

\* C14: for every limit <= 0 and every value (any number, either sign, NaN)
\* _clamp returns 0.
C14_NonPositiveLimitGivesZero ==
    (arg.fn = "_clamp" /\ arg.limit <= 0 /\ ret.k # "none") => ret = Return(Num(0))

\* _clamp has returned 0 for a value that is not 0 under a negative limit.
C14_Witness ==
    /\ arg.fn = "_clamp"
    /\ arg.limit < 0
    /\ arg.value = Num(MaxValue)
    /\ ret = Return(Num(0))

\* C15 (as claimed): for every limit > 0 and every value v, _clamp(v, limit)
\* is within [-limit, limit], and it is v when v is within [-limit, limit].
C15_ClampWithinLimit ==
    (arg.fn = "_clamp" /\ arg.limit > 0 /\ ret.k # "none")
        => /\ ret.k = "return"
           /\ Within(ret.v, arg.limit)
           /\ Within(arg.value, arg.limit) => ret.v = arg.value

\* C16: when lateral motion is off, the command that _to_twist returns has
\* linear.y = 0 for every linear.y of the payload and every lateral limit.
C16_LateralOffGivesZero ==
    (arg.fn = "_to_twist" /\ ~arg.allow_y /\ ret.k = "return") => ret.v.ly = Num(0)

\* _to_twist has returned linear.y = 0 for a payload whose linear.y is not 0,
\* under a positive lateral limit, with lateral motion off.
C16_Witness ==
    /\ arg.fn = "_to_twist"
    /\ ~arg.allow_y
    /\ arg.side > 0
    /\ arg.data.linear.y = Num(1)
    /\ ret.k = "return"
    /\ ret.v.ly = Num(0)
    /\ ret.v.lx # Num(0)

\* C17: _extract_twist of a response whose content, in the choices shape or
\* in the flat shape, is the JSON text of a payload returns that payload; of
\* a text without "{" or without "}" it raises.
C17_ExtractRoundTrips ==
    (arg.fn = "_extract_twist" /\ ret.k # "none")
        => LET content == ContentOf(arg.response_json)
           IN /\ \A n \in PayloadNames :
                     content = TextContent(ToJson(n)) => ret = Return(n)
              /\ (/\ content.k = "text"
                  /\ \/ \A i \in 1..Len(content.text) : content.text[i] # "{"
                     \/ \A i \in 1..Len(content.text) : content.text[i] # "}")
                     => ret.k = "raise"

\* _extract_twist has returned the payload whose JSON text came in the
\* choices shape.
C17_Witness ==
    /\ arg.fn = "_extract_twist"
    /\ arg.response_json.choices = TextContent(ToJson("pFast"))
    /\ ret = Return("pFast")

\* C18: the stamp of a set is the clock read at line 106, inside the locked
\* section and after the remote call has returned; it is never earlier than
\* the arrival of the directive.
SetTimes(h) == pc[h] = "set_time" /\ pc'[h] # "set_time"

C18_SetStampsCompletion ==
    [][ \A h \in Handlers :
            SetTimes(h)
                => /\ last_command_time' = now
                   /\ last_command_time' >= arrival[h].at
                   /\ current_cmd' = twist_cmd[h]
                   /\ command_lock = h /\ command_lock' = "free" ]_vars

\* A tick reads the command more than command_hold_duration after its
\* directive arrived and finds it fresh, because the set came later.
C18_Witness ==
    /\ AfterSet
    /\ cmd_writer.by = "h1"
    /\ pc["h1"] = "idle"
    /\ arrival["h1"].text # <<>>
    /\ pc[TimerThread] = "publish"
    /\ age <= command_hold_duration
    /\ (last_command_time + age) - arrival["h1"].at > command_hold_duration
    /\ publish_cmd = current_cmd
    /\ current_cmd # ZeroTwist

\* C19: no step of _timer_publish changes the held command or its stamp,
\* whether it finds the command fresh or stale.
TimerSteps == pc'[TimerThread] # pc[TimerThread]

C19_TickLeavesSlot ==
    [][ TimerSteps => UNCHANGED <<current_cmd, last_command_time, cmd_writer, time_writer>> ]_vars

\* A tick published the held command while it was fresh; a later tick has
\* found it stale and is about to publish zero, and the slot still holds the
\* command and the stamp of the set.
C19_Witness ==
    /\ pc[TimerThread] = "publish"
    /\ age > command_hold_duration
    /\ last_command_time + age = now
    /\ publish_cmd = ZeroTwist
    /\ AfterSet
    /\ cmd_writer.by = "h1"
    /\ current_cmd # ZeroTwist
    /\ cmd_out = <<TickMessage(current_cmd)>>

\* C20: the slot starts as {zero, time zero} and stays so until line 105
\* stores a command; every message on the sink, and every command a tick is
\* about to publish, is zero or a command that line 105 stored before.
C20_NonZeroOnlyAfterSet ==
    /\ installed = {} => current_cmd = ZeroTwist /\ last_command_time = 0
    /\ \A i \in 1..Len(cmd_out) : cmd_out[i].msg = ZeroTwist \/ cmd_out[i].msg \in installed
    /\ publish_cmd = ZeroTwist \/ publish_cmd \in installed

\* Nothing has been set yet: a call of ~stop has answered, a directive has
\* failed and reset the slot, an empty directive has come in after that, time
\* has passed and the last message on the sink is the zero of a tick.
C20_Witness ==
    /\ installed = {}
    /\ stop_response = "success"
    /\ time_writer = Write("h1", "reset")
    /\ arrival["h1"].text = <<>>
    /\ now > command_hold_duration
    /\ cmd_out = <<TickMessage(ZeroTwist)>>

====
